---------------------------- MODULE Spec2Model ----------------------------
(***************************************************************************)
(* State-machine model of mod_csrfprotector (Apache 2.2 module),           *)
(* src/apache 2.2/src/mod_csrfprotector.c.                                 *)
(*                                                                         *)
(* C strings are sequences of one-character strings, without their         *)
(* terminating zero byte.  A pointer is NULL (the empty tuple) or Ptr(x)   *)
(* (the one-element tuple holding what it points to).  A function that can *)
(* fault (an access through a null pointer ends the worker with SIGSEGV)   *)
(* returns a record with a "fault" field.  Bytes the code reads without    *)
(* having written them (past the end of an allocation, through an          *)
(* unassigned pointer) are inputs of the operator, chosen by the action    *)
(* that applies it.                                                        *)
(***************************************************************************)
EXTENDS Integers, Sequences, FiniteSets, TLC

\* ------------------------------------------------------------------------
\* Bounds of the model
\* ------------------------------------------------------------------------

\* longest cookie / form value drawn for the cookie-extraction runs
MaxTokLen == 2
\* most cookies in one Cookie header
MaxCookies == 2
\* most fields in one POST body
MaxFields == 2
\* most bytes read past the end of an unterminated buffer before a zero byte
MaxJunk == 1
\* longest token asked of generateToken
MaxGenLen == 2
\* largest value drawn for rand(); 0..MaxRand covers every residue mod 123
MaxRand == 123
\* most configuration directives processed before the server starts serving
MaxDirectives == 2

\* ------------------------------------------------------------------------
\* Pointers and C strings
\* ------------------------------------------------------------------------

NULL == <<>>
Ptr(x) == <<x>>
Deref(p) == p[1]

\* the zero byte, where it occurs inside a buffer
NUL == "NUL"

Min(S) == CHOOSE x \in S : \A y \in S : x <= y

SeqsUpTo(S, n) == UNION {[1..k -> S] : k \in 0..n}

UPPER == <<"A","B","C","D","E","F","G","H","I","J","K","L","M","N","O","P","Q","R","S","T","U","V","W","X","Y","Z">>
LOWER == <<"a","b","c","d","e","f","g","h","i","j","k","l","m","n","o","p","q","r","s","t","u","v","w","x","y","z">>
DIGITS == <<"0","1","2","3","4","5","6","7","8","9">>
HEXDIGITS == <<"0","1","2","3","4","5","6","7","8","9","a","b","c","d","e","f","A","B","C","D","E","F">>
\* the printable ASCII characters, code 32 first (the double quote, the
\* backslash and the backtick by name)
ASCII == <<" ","!","DQUOTE","#","$","%","&","'","(",")","*","+",",","-",".","/","0","1","2","3","4","5","6","7","8","9",":",";","<","=",">","?","@","A","B","C","D","E","F","G","H","I","J","K","L","M","N","O","P","Q","R","S","T","U","V","W","X","Y","Z","[","BSLASH","]","^","_","BTICK","a","b","c","d","e","f","g","h","i","j","k","l","m","n","o","p","q","r","s","t","u","v","w","x","y","z","{","|","}","~">>

\* index of c in sequence s, 0 when absent
IndexIn(s, c) == IF \E i \in 1..Len(s) : s[i] = c
                 THEN CHOOSE i \in 1..Len(s) :
                          s[i] = c /\ \A j \in 1..(i - 1) : s[j] # c
                 ELSE 0

\* tolower, as a table over the upper-case letters
LowerOf == [c \in {UPPER[i] : i \in 1..Len(UPPER)} |-> LOWER[IndexIn(UPPER, c)]]
tolower(c) == IF c \in DOMAIN LowerOf THEN LowerOf[c] ELSE c

\* strcasecmp(a, b) == 0
strcaseeq(a, b) == /\ Len(a) = Len(b)
                   /\ \A i \in 1..Len(a) : tolower(a[i]) = tolower(b[i])

\* the C string held in a buffer: the bytes before its first zero byte
CStr(bytes) == IF IndexIn(bytes, NUL) = 0 THEN bytes
               ELSE SubSeq(bytes, 1, IndexIn(bytes, NUL) - 1)

\* strstr(hay, needle): the suffix of hay that starts at the first occurrence
strstr(hay, needle) ==
    LET at == {i \in 1..(Len(hay) - Len(needle) + 1) :
                   SubSeq(hay, i, i + Len(needle) - 1) = needle}
    IN  IF at = {} THEN NULL ELSE Ptr(SubSeq(hay, Min(at), Len(hay)))

\* ------------------------------------------------------------------------
\* Program constants
\* ------------------------------------------------------------------------

CSRFP_TOKEN == <<"c","s","r","f","p","_","t","o","k","e","n">>
DEFAULT_POST_ENCTYPE == <<"a","p","p","l","i","c","a","t","i","o","n","/","x","-","w","w","w","-","f","o","r","m","-","u","r","l","e","n","c","o","d","e","d">>
REGEN_TOKEN == <<"t","r","u","e">>

DEFAULT_ACTION == 0
DEFAULT_TOKEN_LENGTH == 15

CSRFP_ACTION_FORBIDDEN == 0
CSRFP_ACTION_STRIP == 1
CSRFP_ACTION_REDIRECT == 2
CSRFP_ACTION_MESSAGE == 3
CSRFP_ACTION_INTERNAL_SERVER_ERROR == 4

\* ------------------------------------------------------------------------
\* getCookieToken
\* ------------------------------------------------------------------------

\* the loop of getCookieToken: the number of characters of p before its
\* first ';', or all of them
ScanToSemicolon(p) == IF IndexIn(p, ";") = 0 THEN Len(p) ELSE IndexIn(p, ";") - 1

\* Result: fault, or tok = NULL, or tok = Ptr(the len bytes strncpy wrote).
\* The buffer holds exactly len bytes and no terminator: apr_pcalloc was
\* asked for len bytes and strncpy copied len non-zero characters.
getCookieToken(r) ==
    LET cookie == r.cookie IN
    IF cookie = NULL THEN [fault |-> FALSE, tok |-> NULL]
    ELSE LET p == strstr(Deref(cookie), CSRFP_TOKEN) IN
         IF p = NULL
         THEN [fault |-> TRUE, tok |-> NULL]       \* strlen(NULL)
         ELSE LET pos == ScanToSemicolon(Deref(p))
                  len == pos - Len(CSRFP_TOKEN) - 1
              IN  IF len < 0
                  THEN [fault |-> TRUE, tok |-> NULL]   \* apr_pcalloc(-1), strncpy(.., -1)
                  ELSE [fault |-> FALSE,
                        tok |-> Ptr(SubSeq(Deref(p), Len(CSRFP_TOKEN) + 2,
                                           Len(CSRFP_TOKEN) + 1 + len))]

\* ------------------------------------------------------------------------
\* read_post and what it calls
\* ------------------------------------------------------------------------

\* ap_getword(pool, &line, stop): the word before the first stop character;
\* line is advanced past that character and every stop character after it
ap_getword(line, stop) ==
    LET pos == IndexIn(line, stop) IN
    IF pos = 0 THEN [word |-> line, rest |-> <<>>]
    ELSE LET after == {i \in pos..Len(line) : line[i] # stop}
         IN  [word |-> SubSeq(line, 1, pos - 1),
              rest |-> IF after = {} THEN <<>>
                       ELSE SubSeq(line, Min(after), Len(line))]

\* x2c: the byte two hexadecimal digits stand for
HexVal(c) == LET i == IndexIn(HEXDIGITS, c) IN IF i <= 16 THEN i - 1 ELSE i - 7
Chr(n) == IF n = 0 THEN NUL
          ELSE IF n >= 32 /\ n <= 126 THEN ASCII[n - 31]
          ELSE "NONPRINT"
x2c(hi, lo) == Chr(16 * HexVal(hi) + HexVal(lo))

\* ap_unescape_url, in place: %XY becomes the byte XY; a '%' not followed by
\* two hexadecimal digits stays.  The return value is not read by read_post.
RECURSIVE ap_unescape_url(_)
ap_unescape_url(url) ==
    IF url = <<>> THEN <<>>
    ELSE IF url[1] = "%" /\ Len(url) >= 3
            /\ IndexIn(HEXDIGITS, url[2]) > 0 /\ IndexIn(HEXDIGITS, url[3]) > 0
         THEN <<x2c(url[2], url[3])>> \o ap_unescape_url(SubSeq(url, 4, Len(url)))
         ELSE <<url[1]>> \o ap_unescape_url(Tail(url))

\* An apr_table_t: a sequence of [key, val] entries; keys compare without case.
apr_table_make == <<>>

apr_table_get(t, key) ==
    LET at == {i \in 1..Len(t) : strcaseeq(t[i].key, key)}
    IN  IF at = {} THEN NULL ELSE Ptr(t[Min(at)].val)

\* apr_table_setn: the entry of that key gets the value; a new key is
\* appended (a table filled by apr_table_setn alone holds a key once)
apr_table_setn(t, key, val) ==
    LET at == {i \in 1..Len(t) : strcaseeq(t[i].key, key)}
    IN  IF at = {} THEN Append(t, [key |-> key, val |-> val])
        ELSE [i \in 1..Len(t) |-> IF i = Min(at) THEN [key |-> t[i].key, val |-> val]
                                  ELSE t[i]]

\* the while loop of read_post over the body text
RECURSIVE ParseForm(_, _)
ParseForm(data, tbl) ==
    IF data = <<>> THEN tbl
    ELSE LET w == ap_getword(data, "&")
             k == ap_getword(w.word, "=")
             key == CStr(ap_unescape_url(k.word))
             val == CStr(ap_unescape_url(k.rest))
         IN  ParseForm(w.rest, apr_table_setn(tbl, key, val))

\* util_read: rc is what ap_setup_client_block returned; *rbuf is assigned
\* only when ap_should_client_block(r), that is when there is a body to read
util_read(r) == [rc |-> r.setup,
                 assigned |-> r.setup = "OK" /\ r.body # NULL,
                 data |-> IF r.setup = "OK" /\ r.body # NULL THEN Deref(r.body) ELSE <<>>]

\* read_post: tbl = NULL or Ptr(table).  wild says what the unassigned local
\* `data' holds when util_read left it alone: an address that cannot be read
\* (fault) or one where some text lies.
read_post(r, wild) ==
    IF r.method # "POST" THEN [fault |-> FALSE, tbl |-> NULL]
    ELSE IF r.contentType = NULL
         THEN [fault |-> TRUE, tbl |-> NULL]              \* strcasecmp(NULL, ..)
    ELSE IF ~strcaseeq(Deref(r.contentType), DEFAULT_POST_ENCTYPE)
         THEN [fault |-> FALSE, tbl |-> NULL]
    ELSE LET u == util_read(r) IN
         IF u.rc # "OK" THEN [fault |-> FALSE, tbl |-> NULL]
         ELSE IF ~u.assigned
              THEN IF wild.fault THEN [fault |-> TRUE, tbl |-> NULL]
                   ELSE [fault |-> FALSE, tbl |-> Ptr(ParseForm(wild.data, apr_table_make))]
              ELSE [fault |-> FALSE, tbl |-> Ptr(ParseForm(u.data, apr_table_make))]

\* ------------------------------------------------------------------------
\* validatePOSTtoken
\* ------------------------------------------------------------------------

\* strcmp(tokenValue, tok) == 0, where tok is the unterminated buffer of
\* getCookieToken: strcmp reads on into the bytes that follow it (junk, the
\* non-zero bytes found there before a zero byte)
TokenMatches(tokenValue, tok, junk) == tokenValue = tok \o junk

\* Result: fault, or ret = 0 (failed) or 1 (passed)
validatePOSTtoken(r, wild, junk) ==
    LET POST == read_post(r, wild) IN
    IF POST.fault THEN [fault |-> TRUE, ret |-> 0]
    ELSE IF POST.tbl = NULL
         THEN [fault |-> TRUE, ret |-> 0]                 \* apr_table_get(NULL, ..)
    ELSE LET tokenValue == apr_table_get(Deref(POST.tbl), CSRFP_TOKEN) IN
         IF tokenValue = NULL THEN [fault |-> FALSE, ret |-> 0]
         ELSE LET c == getCookieToken(r) IN
              IF c.fault THEN [fault |-> TRUE, ret |-> 0]
              ELSE IF c.tok = NULL
                   THEN [fault |-> TRUE, ret |-> 0]       \* strcmp(.., NULL)
              ELSE IF TokenMatches(Deref(tokenValue), Deref(c.tok), junk)
                   THEN [fault |-> FALSE, ret |-> 1]
                   ELSE [fault |-> FALSE, ret |-> 0]

\* ------------------------------------------------------------------------
\* generateToken
\* ------------------------------------------------------------------------

\* the string literal of generateToken: 60 characters, then its terminator
stringset == <<"A","B","C","D","E","F","G","H","I","J","K","L","M","N","O","P","Q","R","S","T","W","X","Y","Z","a","b","c","d","e","f","g","h","i","j","k","l","m","n","o","p","q","r","s","t","u","v","w","x","y","z","0","1","2","3","4","5","6","7","8","9">>

\* stringset[i] of the C code (i from 0): a character, the terminator at
\* Len(stringset), and past it whatever byte follows the literal (beyond)
StringsetAt(i, beyond) == IF i < Len(stringset) THEN stringset[i + 1]
                          ELSE IF i = Len(stringset) THEN NUL
                          ELSE beyond

\* one pass of the loop body: the byte stored in token[i] for one rand()
TokenByte(rnd, beyond) ==
    LET rno == (rnd % 123) + 1 IN
    IF rno < 62 THEN StringsetAt(rno, beyond) ELSE StringsetAt(rno - 62, beyond)

\* generateToken(r, length): the length bytes of the buffer, rands[i] being
\* the i-th value rand() returned
generateToken(length, rands, beyond) ==
    [i \in 1..length |-> TokenByte(rands[i], beyond)]

\* ------------------------------------------------------------------------
\* Configuration: csrfp_config, csrfp_srv_config_create, directive handlers
\* ------------------------------------------------------------------------

DEFAULT_ERROR_MESSAGE == <<"<","h","2",">","A","C","C","E","S","S"," ","F","O","R","B","I","D","D","E","N"," ","B","Y"," ","O","W","A","S","P"," ","C","S","R","F","_","P","R","O","T","E","C","T","O","R","!","<","/","h","2",">">>
DEFAULT_REDIRECT_URL == <<>>
X_PROTECTED_BY == <<"X","-","P","r","o","t","e","c","t","e","d","-","B","y">>
CSRFP_VERSION == <<"C","S","R","F","P"," ","0",".","0",".","1">>
REGEN_KEY == <<"r","e","g","e","n","T","o","k","e","n">>
OUTPUT_FILTER_KEY == <<"o","u","t","p","u","t","_","f","i","l","t","e","r">>
CALLED == <<"c","a","l","l","e","d">>
SET_COOKIE == <<"S","e","t","-","C","o","o","k","i","e">>
LOCATION == <<"L","o","c","a","t","i","o","n">>
STR_off == <<"o","f","f">>
STR_forbidden == <<"f","o","r","b","i","d","d","e","n">>
STR_strip == <<"s","t","r","i","p">>
STR_redirect == <<"r","e","d","i","r","e","c","t">>
STR_message == <<"m","e","s","s","a","g","e">>
STR_internal_server_error == <<"i","n","t","e","r","n","a","l","_","s","e","r","v","e","r","_","e","r","r","o","r">>

\* The configuration scopes (server_rec): the main server and a virtual host
Scopes == {"main", "vhost"}

\* the csrfp_config csrfp_srv_config_create builds (the fields the request
\* path and the directive handlers below use)
DefaultConfig == [flag |-> 1,
                  action |-> DEFAULT_ACTION,
                  tokenLength |-> DEFAULT_TOKEN_LENGTH,
                  errorRedirectionUri |-> Ptr(DEFAULT_REDIRECT_URL),
                  errorCustomMessage |-> Ptr(DEFAULT_ERROR_MESSAGE)]

\* csrfp_enable_cmd on the config the global points to
enable_cmd(c, arg) == [c EXCEPT !.flag = IF strcaseeq(arg, STR_off) THEN 0 ELSE 1]

\* csrfp_action_cmd
action_cmd(c, arg) ==
    [c EXCEPT !.action =
        IF strcaseeq(arg, STR_forbidden) THEN CSRFP_ACTION_FORBIDDEN
        ELSE IF strcaseeq(arg, STR_strip) THEN CSRFP_ACTION_STRIP
        ELSE IF strcaseeq(arg, STR_redirect) THEN CSRFP_ACTION_REDIRECT
        ELSE IF strcaseeq(arg, STR_message) THEN CSRFP_ACTION_MESSAGE
        ELSE IF strcaseeq(arg, STR_internal_server_error)
             THEN CSRFP_ACTION_INTERNAL_SERVER_ERROR
        ELSE CSRFP_ACTION_FORBIDDEN]

\* isspace, for the characters the drawn arguments hold
IsSpace(c) == c = " "

\* the digits of atoi, most significant first, up to the first non-digit
RECURSIVE AtoiDigits(_, _)
AtoiDigits(s, acc) ==
    IF s = <<>> \/ IndexIn(DIGITS, s[1]) = 0 THEN acc
    ELSE AtoiDigits(Tail(s), 10 * acc + (IndexIn(DIGITS, s[1]) - 1))

\* atoi(arg): leading white space, an optional sign, then digits
RECURSIVE atoi(_)
atoi(s) ==
    IF s = <<>> THEN 0
    ELSE IF IsSpace(s[1]) THEN atoi(Tail(s))
    ELSE IF s[1] = "-" THEN 0 - AtoiDigits(Tail(s), 0)
    ELSE IF s[1] = "+" THEN AtoiDigits(Tail(s), 0)
    ELSE AtoiDigits(s, 0)

\* csrfp_tokenLength_cmd
tokenLength_cmd(c, arg) ==
    IF Len(arg) > 0 /\ atoi(arg) # 0 THEN [c EXCEPT !.tokenLength = atoi(arg)]
    ELSE c

\* csrfp_errorRedirectionUri_cmd: strncpy into the buffer the field points
\* to (the arguments drawn are shorter than CSRFP_URI_MAXLENGTH), or the
\* field is set to NULL.  strncpy to a field that is NULL already faults.
errorRedirectionUri_cmd(c, arg) ==
    IF Len(arg) > 0
    THEN IF c.errorRedirectionUri = NULL THEN [fault |-> TRUE, conf |-> c]
         ELSE [fault |-> FALSE, conf |-> [c EXCEPT !.errorRedirectionUri = Ptr(arg)]]
    ELSE [fault |-> FALSE, conf |-> [c EXCEPT !.errorRedirectionUri = NULL]]

\* csrfp_errorCustomMessage_cmd
errorCustomMessage_cmd(c, arg) ==
    IF Len(arg) > 0
    THEN IF c.errorCustomMessage = NULL THEN [fault |-> TRUE, conf |-> c]
         ELSE [fault |-> FALSE, conf |-> [c EXCEPT !.errorCustomMessage = Ptr(arg)]]
    ELSE [fault |-> FALSE, conf |-> [c EXCEPT !.errorCustomMessage = NULL]]

\* ------------------------------------------------------------------------
\* Request path: failedValidationAction, csrfp_header_parser, csrfp_out_filter
\* ------------------------------------------------------------------------

apr_table_add(t, key, val) == Append(t, [key |-> key, val |-> val])

\* ap_rprintf(r, "<h2>%s</h2>", text): what is written to the response; a
\* NULL argument of %s is formatted as "(null)"
FormatH2(text) ==
    <<"<","h","2",">">>
    \o (IF text = NULL THEN <<"(","n","u","l","l",")">> ELSE Deref(text))
    \o <<"<","/","h","2",">">>

\* failedValidationAction: the status it returns and the response text after it
failedValidationAction(conf, written) ==
    IF conf.action = CSRFP_ACTION_FORBIDDEN
    THEN [ret |-> "HTTP_FORBIDDEN", written |-> written]
    ELSE IF conf.action = CSRFP_ACTION_STRIP
    THEN [ret |-> "OK", written |-> written]
    ELSE IF conf.action = CSRFP_ACTION_REDIRECT
    THEN [ret |-> "DONE", written |-> written]
    ELSE IF conf.action = CSRFP_ACTION_MESSAGE
    THEN [ret |-> "DONE", written |-> written \o FormatH2(conf.errorCustomMessage)]
    ELSE IF conf.action = CSRFP_ACTION_INTERNAL_SERVER_ERROR
    THEN [ret |-> "HTTP_INTERNAL_SERVER_ERROR", written |-> written]
    ELSE [ret |-> "HTTP_FORBIDDEN", written |-> written]

\* variant: the flag is not consulted
ModuleEnabled_flagIgnored(conf) == TRUE

\* if (!conf->flag) return OK;
ModuleEnabled(conf) == conf.flag # 0

\* variant: the marker header is not added
AddProtectedBy_skipped(headers) == headers

\* apr_table_addn(r->headers_out, "X-Protected-By", "CSRFP 0.0.1")
AddProtectedBy(headers) == apr_table_add(headers, X_PROTECTED_BY, CSRFP_VERSION)

\* the request's response-side state when the hook is entered
FreshResponse == [ret |-> "NONE", valid |-> "none", output_filters |-> {},
                  subprocess_env |-> <<>>, headers_out |-> <<>>, written |-> <<>>]

\* csrfp_header_parser on request req under config conf.  ret is the value
\* the hook returns ("SIGSEGV" when the worker faults inside it); valid
\* records what validatePOSTtoken did: "na" (not called), "pass", "fail",
\* "fault".
header_parser(conf, req, wild, junk) ==
    IF ~ModuleEnabled(conf) THEN [FreshResponse EXCEPT !.ret = "OK"]
    ELSE LET f == [FreshResponse EXCEPT !.output_filters = @ \cup {"csrfp_out_filter"}]
             v == validatePOSTtoken(req, wild, junk)
         IN  IF req.method = "POST" /\ v.fault
             THEN [f EXCEPT !.ret = "SIGSEGV", !.valid = "fault"]
             ELSE IF req.method = "POST" /\ v.ret = 0
             THEN LET a == failedValidationAction(conf, f.written)
                  IN  [f EXCEPT !.ret = a.ret, !.written = a.written, !.valid = "fail"]
             ELSE [f EXCEPT !.valid = IF req.method = "POST" THEN "pass" ELSE "na",
                            !.subprocess_env = apr_table_add(@, REGEN_KEY, REGEN_TOKEN),
                            !.headers_out = AddProtectedBy(@),
                            !.ret = "OK"]

\* csrfp_out_filter on the response state: the regenToken branch is empty
out_filter(resp) ==
    LET regenToken == apr_table_get(resp.subprocess_env, REGEN_KEY)
        h == apr_table_add(resp.headers_out, OUTPUT_FILTER_KEY, CALLED)
        \* if (regenToken && !strcasecmp(regenToken, REGEN_TOKEN)) { }
        h2 == IF regenToken # NULL /\ strcaseeq(Deref(regenToken), REGEN_TOKEN)
              THEN h ELSE h
    IN  [resp EXCEPT !.headers_out = h2,
                     !.written = @ \o <<"<","b","r",">","o","u","t","p","u","t"," ","f","i","l","t","e","r">>]

\* the csrfp_token a response hands to the client: the value of a
\* Set-Cookie: csrfp_token=... header of headers_out, NULL when there is none
IssuedToken(resp) ==
    LET at == {i \in 1..Len(resp.headers_out) :
                 /\ strcaseeq(resp.headers_out[i].key, SET_COOKIE)
                 /\ Len(resp.headers_out[i].val) > Len(CSRFP_TOKEN)
                 /\ SubSeq(resp.headers_out[i].val, 1, Len(CSRFP_TOKEN) + 1)
                       = CSRFP_TOKEN \o <<"=">>}
    IN  IF at = {} THEN NULL
        ELSE LET v == resp.headers_out[Min(at)].val
             IN  Ptr(SubSeq(v, Len(CSRFP_TOKEN) + 2, ScanToSemicolon(v)))

\* ------------------------------------------------------------------------
\* Inputs
\* ------------------------------------------------------------------------

TokChars == {"A", "B"}
JunkChars == {"B"}
Junks == SeqsUpTo(JunkChars, MaxJunk)

X_CSRFP_TOKEN == <<"x">> \o CSRFP_TOKEN
SID == <<"s","i","d">>
ENCTYPE_UPPER == <<"A","P","P","L","I","C","A","T","I","O","N","/","X","-","W","W","W","-","F","O","R","M","-","U","R","L","E","N","C","O","D","E","D">>
TEXT_PLAIN == <<"t","e","x","t","/","p","l","a","i","n">>

\* a cookie of a Cookie header, a field of a form body: name[=value]
Seg(name, eq, value) == [name |-> name, eq |-> eq, value |-> value]
RenderSeg(g) == g.name \o (IF g.eq THEN <<"=">> \o g.value ELSE <<>>)

RECURSIVE Join(_, _)
Join(segs, sep) ==
    IF segs = <<>> THEN <<>>
    ELSE IF Len(segs) = 1 THEN RenderSeg(segs[1])
    ELSE RenderSeg(segs[1]) \o sep \o Join(Tail(segs), sep)

\* the Cookie header a client sends for its cookies, the body for its fields
CookieHeader(jar) == IF jar = NULL THEN NULL ELSE Ptr(Join(Deref(jar), <<";", " ">>))
FormBody(form) == IF form = NULL THEN NULL ELSE Ptr(Join(Deref(form), <<"&">>))

\* the request_rec fields the module reads
RequestOf(in) == [server |-> in.server, method |-> in.method,
                  contentType |-> in.contentType, setup |-> in.setup,
                  cookie |-> CookieHeader(in.jar), body |-> FormBody(in.form)]

NoInput == [server |-> "main", method |-> "GET", contentType |-> NULL, setup |-> "OK",
            jar |-> NULL, form |-> NULL, length |-> 0]

\* what the unassigned `data' of read_post may point at
Wilds == {[fault |-> TRUE, data |-> <<>>],
          [fault |-> FALSE, data |-> <<>>],
          [fault |-> FALSE, data |-> CSRFP_TOKEN \o <<"=", "A">>]}

\* The bytes an input leaves to chance.  `data' is unassigned only when a
\* POST has no body to read; the bytes behind the cookie token's buffer are
\* read only when a POST comes with a Cookie header.
WildsFor(in) == IF in.method = "POST" /\ in.form = NULL THEN Wilds
                ELSE {[fault |-> TRUE, data |-> <<>>]}
JunksFor(in) == IF in.method = "POST" /\ in.jar # NULL THEN Junks ELSE {<<>>}

\* the byte behind the terminator of the stringset literal
BeyondBytes == {NUL, "%", "A"}

\* directive arguments
EnableArgs == {<<"o","n">>, <<"O","f","f">>}
ActionArgs == {STR_forbidden, <<"S","t","r","i","p">>, STR_redirect, STR_message,
               STR_internal_server_error, <<"b","o","g","u","s">>}
UriArgs == {<<>>, <<"h","t","t","p",":","/","/","x","/","e","r","r">>}
MessageArgs == {<<>>, <<"b","l","o","c","k","e","d">>}
TokenLengthArgs == {<<>>, <<"7">>, <<"0">>, <<"-","5">>, <<"x">>}

\* requests of the serving runs
ServedCookies == {NULL, Ptr(<<Seg(CSRFP_TOKEN, TRUE, <<"A">>)>>)}
ServedForms == {Ptr(<<Seg(CSRFP_TOKEN, TRUE, <<"A">>)>>),
                Ptr(<<Seg(CSRFP_TOKEN, TRUE, <<"B">>)>>),
                Ptr(<<Seg(<<"a">>, TRUE, <<"A">>)>>)}
ServedInputs ==
    {[server |-> sv, method |-> "POST", contentType |-> ct, setup |-> "OK",
      jar |-> j, form |-> f, length |-> 0] :
        sv \in Scopes, ct \in {NULL, Ptr(DEFAULT_POST_ENCTYPE)},
        j \in ServedCookies, f \in ServedForms}
    \cup
    {[server |-> sv, method |-> m, contentType |-> NULL, setup |-> "OK",
      jar |-> j, form |-> NULL, length |-> 0] :
        sv \in Scopes, m \in {"GET", "PUT"}, j \in ServedCookies}

\* ------------------------------------------------------------------------
\* State
\* ------------------------------------------------------------------------

VARIABLES
    phase,       \* "config": directives are processed; "serving": requests
                 \* are; "crashed": a directive handler faulted
    confs,       \* per scope, the csrfp_config csrfp_srv_config_create made
                 \* for it (what ap_get_module_config returns), or NULL
    config,      \* the static csrfp_config *config: NULL or Ptr(scope whose
                 \* instance it points to)
    cmd_server,  \* cmd->server of the last directive processed, or NULL
    ndir,        \* number of directives processed in this configuration pass
    r,           \* the request in hand and its response-side state
    prevTok,     \* the csrfp_token the previous response issued, or NULL
    fin,         \* runs of one function: its input
    fout         \* runs of one function: NULL, or Ptr(its result)

vars == <<phase, confs, config, cmd_server, ndir, r, prevTok, fin, fout>>

confVars == <<phase, confs, config, cmd_server, ndir>>

IdleRequest == [pc |-> "idle", req |-> RequestOf(NoInput)] @@ FreshResponse

ServerInit ==
    /\ phase = "config"
    /\ confs = [sc \in Scopes |-> NULL]
    /\ config = NULL
    /\ cmd_server = NULL
    /\ ndir = 0
    /\ r = IdleRequest
    /\ prevTok = NULL

Init == ServerInit /\ fin = NoInput /\ fout = NULL

\* ------------------------------------------------------------------------
\* Configuration actions
\* ------------------------------------------------------------------------

\* csrfp_srv_config_create(p, s): the host calls it once per scope, for the
\* main server first
csrfp_srv_config_create(sc) ==
    /\ phase = "config"
    /\ confs[sc] = NULL
    /\ sc = "main" \/ confs["main"] # NULL
    /\ confs' = [confs EXCEPT ![sc] = Ptr(DefaultConfig)]
    /\ config' = Ptr(sc)
    /\ UNCHANGED <<phase, cmd_server, ndir, r, prevTok, fin, fout>>

\* a directive of scope sc reaches its handler: the handler writes through
\* the global `config', not through cmd or cfg
Directive(sc, newconf) ==
    /\ phase = "config"
    /\ confs[sc] # NULL
    /\ ndir < MaxDirectives
    /\ confs' = [confs EXCEPT ![Deref(config)] = Ptr(newconf)]
    /\ cmd_server' = Ptr(sc)
    /\ ndir' = ndir + 1
    /\ UNCHANGED <<phase, config, r, prevTok, fin, fout>>

\* a directive handler faults (strncpy to a NULL field): the server is down
DirectiveFault(sc) ==
    /\ phase = "config"
    /\ confs[sc] # NULL
    /\ ndir < MaxDirectives
    /\ phase' = "crashed"
    /\ cmd_server' = Ptr(sc)
    /\ ndir' = ndir + 1
    /\ UNCHANGED <<confs, config, r, prevTok, fin, fout>>

\* the config the global points to
Current == Deref(confs[Deref(config)])

csrfp_enable_cmd(sc, arg) ==
    /\ config # NULL
    /\ Directive(sc, enable_cmd(Current, arg))

csrfp_action_cmd(sc, arg) ==
    /\ config # NULL
    /\ Directive(sc, action_cmd(Current, arg))

csrfp_tokenLength_cmd(sc, arg) ==
    /\ config # NULL
    /\ Directive(sc, tokenLength_cmd(Current, arg))

csrfp_errorRedirectionUri_cmd(sc, arg) ==
    /\ config # NULL
    /\ IF errorRedirectionUri_cmd(Current, arg).fault
       THEN DirectiveFault(sc)
       ELSE Directive(sc, errorRedirectionUri_cmd(Current, arg).conf)

csrfp_errorCustomMessage_cmd(sc, arg) ==
    /\ config # NULL
    /\ IF errorCustomMessage_cmd(Current, arg).fault
       THEN DirectiveFault(sc)
       ELSE Directive(sc, errorCustomMessage_cmd(Current, arg).conf)

\* the configuration is read; csrfp_register_hooks has hooked the parser and
\* the filter, and requests are served from now on
StartServing ==
    /\ phase = "config"
    /\ confs["main"] # NULL
    /\ phase' = "serving"
    /\ cmd_server' = NULL
    /\ ndir' = 0
    /\ UNCHANGED <<confs, config, r, prevTok, fin, fout>>

\* ------------------------------------------------------------------------
\* Request actions
\* ------------------------------------------------------------------------

\* ap_get_module_config(r->server->module_config, &csrf_protector_module)
ap_get_module_config(sc) == Deref(confs[sc])

\* a request arrives at the idle worker and the header-parser hook runs on it
csrfp_header_parser(in, wild, junk) ==
    /\ phase = "serving"
    /\ r.pc = "idle"
    /\ confs[in.server] # NULL
    /\ LET req == RequestOf(in)
           res == header_parser(ap_get_module_config(in.server), req, wild, junk)
       IN  r' = [pc |-> IF res.ret = "SIGSEGV" THEN "crashed" ELSE "parsed",
                 req |-> req] @@ res
    /\ UNCHANGED <<confVars, prevTok, fin, fout>>

\* The response of the request in hand goes down the output filter chain.
\* The host runs the request's resource filters when the hook returned OK
\* (the content handler produces the response) or DONE (the response is
\* finalised as it stands); for an HTTP error status it builds the error
\* response without them.
csrfp_out_filter ==
    /\ phase = "serving"
    /\ r.pc = "parsed"
    /\ "csrfp_out_filter" \in r.output_filters
    /\ r.ret \in {"OK", "DONE"}
    /\ r' = [pc |-> "filtered", req |-> r.req]
            @@ out_filter([k \in DOMAIN FreshResponse |-> r[k]])
    /\ UNCHANGED <<confVars, prevTok, fin, fout>>

\* the host may run the filter on the response of the request in hand
FilterDue == /\ r.pc = "parsed"
             /\ "csrfp_out_filter" \in r.output_filters
             /\ r.ret \in {"OK", "DONE"}

\* the response is sent (or the worker is gone): the next request can come
RequestDone ==
    /\ phase = "serving"
    /\ r.pc \in {"parsed", "filtered", "crashed"}
    /\ ~FilterDue
    /\ r' = IdleRequest
    /\ prevTok' = IF IssuedToken(r) # NULL THEN IssuedToken(r) ELSE prevTok
    /\ UNCHANGED <<confVars, fin, fout>>

Next ==
    \/ \E sc \in Scopes : csrfp_srv_config_create(sc)
    \/ \E sc \in Scopes, arg \in EnableArgs : csrfp_enable_cmd(sc, arg)
    \/ \E sc \in Scopes, arg \in ActionArgs : csrfp_action_cmd(sc, arg)
    \/ \E sc \in Scopes, arg \in TokenLengthArgs : csrfp_tokenLength_cmd(sc, arg)
    \/ \E sc \in Scopes, arg \in UriArgs : csrfp_errorRedirectionUri_cmd(sc, arg)
    \/ \E sc \in Scopes, arg \in MessageArgs : csrfp_errorCustomMessage_cmd(sc, arg)
    \/ StartServing
    \/ \E in \in ServedInputs :
         \E wild \in WildsFor(in), junk \in JunksFor(in) :
           csrfp_header_parser(in, wild, junk)
    \/ csrfp_out_filter
    \/ RequestDone

Spec == Init /\ [][Next]_vars

\* ------------------------------------------------------------------------
\* Runs of one function on drawn inputs
\* ------------------------------------------------------------------------

\* Cookie headers: up to MaxCookies cookies, named csrfp_token, xcsrfp_token
\* or sid, with values of up to MaxTokLen characters, or a bare name
CookieSegs == {Seg(nm, TRUE, v) : nm \in {CSRFP_TOKEN, X_CSRFP_TOKEN, SID},
                                  v \in SeqsUpTo(TokChars, MaxTokLen)}
              \cup {Seg(CSRFP_TOKEN, FALSE, <<>>), Seg(SID, FALSE, <<>>)}
Jars == {NULL} \cup {Ptr(j) : j \in SeqsUpTo(CookieSegs, MaxCookies)}

InitCookie ==
    /\ ServerInit
    /\ fout = NULL
    /\ fin \in {[NoInput EXCEPT !.jar = j] : j \in Jars}

\* getCookieToken(r), and the string its caller reads through the returned
\* pointer (the buffer, then the bytes behind it up to a zero byte)
ApplyGetCookieToken(junk) ==
    /\ fout = NULL
    /\ LET c == getCookieToken(RequestOf(fin))
       IN  fout' = Ptr([fault |-> c.fault, tok |-> c.tok, behindTok |-> junk,
                        str |-> IF c.tok = NULL THEN NULL
                                ELSE Ptr(Deref(c.tok) \o junk)])
    /\ UNCHANGED <<confVars, r, prevTok, fin>>

NextCookie == \E junk \in Junks : ApplyGetCookieToken(junk)

SpecCookie == InitCookie /\ [][NextCookie]_vars

\* POST requests: a few cookies and fields, each content type, a body or none
PostCookieSegs == {Seg(CSRFP_TOKEN, TRUE, <<"A">>), Seg(CSRFP_TOKEN, TRUE, <<"B">>),
                   Seg(X_CSRFP_TOKEN, TRUE, <<"B">>), Seg(SID, TRUE, <<"A">>)}
PostJars == {NULL} \cup {Ptr(j) : j \in SeqsUpTo(PostCookieSegs, MaxCookies)}
PostFieldSegs == {Seg(CSRFP_TOKEN, TRUE, <<"A">>), Seg(CSRFP_TOKEN, TRUE, <<"B">>),
                  Seg(CSRFP_TOKEN, TRUE, <<"A","B">>),
                  Seg(CSRFP_TOKEN, TRUE, <<"%","4","1">>),
                  Seg(CSRFP_TOKEN, FALSE, <<>>), Seg(<<"a">>, TRUE, <<"A">>)}
PostForms == {NULL} \cup {Ptr(f) : f \in SeqsUpTo(PostFieldSegs, MaxFields)}
ContentTypes == {NULL, Ptr(DEFAULT_POST_ENCTYPE), Ptr(ENCTYPE_UPPER), Ptr(TEXT_PLAIN)}
PostInputs == {[server |-> "main", method |-> "POST", contentType |-> ct,
                setup |-> su, jar |-> j, form |-> f, length |-> 0] :
                  ct \in ContentTypes, su \in {"OK", "HTTP_LENGTH_REQUIRED"},
                  j \in PostJars, f \in PostForms}

InitPost ==
    /\ ServerInit
    /\ fout = NULL
    /\ fin \in PostInputs

\* validatePOSTtoken(r); the result is kept with the bytes the run found
\* behind the cookie token's buffer
ApplyValidatePOSTtoken(wild, junk) ==
    /\ fout = NULL
    /\ fout' = Ptr(validatePOSTtoken(RequestOf(fin), wild, junk)
                   @@ [behindTok |-> junk])
    /\ UNCHANGED <<confVars, r, prevTok, fin>>

NextPost == \E wild \in WildsFor(fin), junk \in JunksFor(fin) :
                ApplyValidatePOSTtoken(wild, junk)

SpecPost == InitPost /\ [][NextPost]_vars

\* generateToken for each length and each sequence of values rand() returns
\* during the call (fin.rands)
InitToken ==
    /\ ServerInit
    /\ fout = NULL
    /\ \E n \in 1..MaxGenLen : \E rands \in [1..n -> 0..MaxRand] :
           fin = [NoInput EXCEPT !.length = n] @@ [rands |-> rands]

ApplyGenerateToken(beyond) ==
    /\ fout = NULL
    /\ fout' = Ptr([token |-> generateToken(fin.length, fin.rands, beyond)])
    /\ UNCHANGED <<confVars, r, prevTok, fin>>

NextToken == \E beyond \in BeyondBytes : ApplyGenerateToken(beyond)

SpecToken == InitToken /\ [][NextToken]_vars

\* ------------------------------------------------------------------------
\* What a request carries, read from the cookies and fields themselves
\* ------------------------------------------------------------------------

TokenSegs(list) == {i \in 1..Len(list) : list[i].name = CSRFP_TOKEN}

\* the Cookie header holds a cookie csrfp_token=value
HasTokenCookie(jar) ==
    jar # NULL /\ \E i \in TokenSegs(Deref(jar)) : Deref(jar)[i].eq
\* the value of the (first) csrfp_token cookie
CookieValue(jar) ==
    Deref(jar)[Min({i \in TokenSegs(Deref(jar)) : Deref(jar)[i].eq})].value

Max(S) == CHOOSE x \in S : \A y \in S : y <= x

\* the body holds a csrfp_token field
HasTokenField(form) == form # NULL /\ TokenSegs(Deref(form)) # {}
\* the percent-decoded value of a drawn field value
Decoded(v) == IF v = <<"%","4","1">> THEN <<"A">> ELSE v
\* the submitted token: the decoded value of the (last) csrfp_token field
SubmittedValue(form) == Decoded(Deref(form)[Max(TokenSegs(Deref(form)))].value)

IsFormType(ct) == ct \in {Ptr(DEFAULT_POST_ENCTYPE), Ptr(ENCTYPE_UPPER)}

\* ------------------------------------------------------------------------
\* Claims on validatePOSTtoken and getCookieToken
\* ------------------------------------------------------------------------

\* C2: for a POST with a form-urlencoded body that carries a csrfp_token
\* field and a Cookie header that carries a csrfp_token cookie,
\* validatePOSTtoken passes if and only if the submitted value equals the
\* cookie value.
C2_PassIffEqual ==
    (/\ fout # NULL
     /\ fin.method = "POST" /\ fin.setup = "OK"
     /\ IsFormType(fin.contentType)
     /\ HasTokenField(fin.form)
     /\ HasTokenCookie(fin.jar))
    => (/\ ~Deref(fout).fault
        /\ (Deref(fout).ret = 1) <=> (SubmittedValue(fin.form) = CookieValue(fin.jar)))

\* a validation input is absent
AbsentInput(in) == \/ ~HasTokenCookie(in.jar)
                   \/ ~HasTokenField(in.form)
                   \/ ~IsFormType(in.contentType)

\* C3: for a POST in which a validation input is absent (no Cookie header,
\* no csrfp_token cookie, no csrfp_token field, a missing or other
\* Content-Type), validation ends failed: it neither faults nor passes.
C3_AbsentInputFails ==
    (/\ fout # NULL
     /\ fin.method = "POST" /\ fin.setup = "OK"
     /\ AbsentInput(fin))
    => (~Deref(fout).fault /\ Deref(fout).ret = 0)

\* C6: getCookieToken returns exactly the value of the csrfp_token cookie,
\* wherever it stands in the header, reads nothing beyond its buffers, and
\* returns NULL without faulting when the header is missing or holds no
\* csrfp_token cookie.
C6_ExtractExact ==
    fout # NULL =>
        /\ ~Deref(fout).fault
        /\ IF HasTokenCookie(fin.jar)
           THEN Deref(fout).str = Ptr(CookieValue(fin.jar))
           ELSE Deref(fout).tok = NULL

\* ------------------------------------------------------------------------
\* Claim on generateToken
\* ------------------------------------------------------------------------

\* the 62 characters [A-Za-z0-9]
Alphabet62 == {UPPER[i] : i \in 1..Len(UPPER)} \cup {LOWER[i] : i \in 1..Len(LOWER)}
              \cup {DIGITS[i] : i \in 1..Len(DIGITS)}

\* C8: generateToken(length) yields exactly length characters, each one of
\* the 62-character alphabet [A-Za-z0-9].
C8_TokenInAlphabet ==
    fout # NULL =>
        /\ Len(Deref(fout).token) = fin.length
        /\ \A i \in 1..Len(Deref(fout).token) : Deref(fout).token[i] \in Alphabet62

\* ------------------------------------------------------------------------
\* Claims on the request path
\* ------------------------------------------------------------------------

\* the hook has returned for the request in hand
Returned == r.pc \in {"parsed", "filtered"}
\* the config the request in hand is served under
ReqConf == Deref(confs[r.req.server])
Enabled == ReqConf.flag # 0
HeaderOut(name) == apr_table_get(r.headers_out, name)
Contains(hay, needle) == strstr(hay, needle) # NULL

Denied(status) == r.ret = status
\* a redirect response: the request ends with a Location header for the client
Redirected == r.ret = "DONE" /\ HeaderOut(LOCATION) # NULL
\* an inline message page: the request ends with text written to the response
MessagePage == r.ret = "DONE" /\ r.written # <<>>

\* C1: with the module enabled, a POST whose token validation fails ends in
\* 403, 500, a redirect response or an inline message page, never in OK.
C1_FailedNeverPassesThrough ==
    (Returned /\ Enabled /\ r.req.method = "POST" /\ r.valid = "fail")
    => (\/ Denied("HTTP_FORBIDDEN")
        \/ Denied("HTTP_INTERNAL_SERVER_ERROR")
        \/ Redirected
        \/ MessagePage)

\* the argument is none of the five action names
Unrecognized(arg) ==
    \A nm \in {STR_forbidden, STR_strip, STR_redirect, STR_message,
               STR_internal_server_error} : ~strcaseeq(arg, nm)

\* C4: for a failed validation the decision is given by the configured
\* action: forbidden 403, redirect to the configured URI, the configured
\* message, internal_server_error 500, and 403 for an unset or
\* unrecognized action.
C4_DecisionByAction ==
    /\ (Returned /\ Enabled /\ r.valid = "fail") =>
         /\ ReqConf.action = CSRFP_ACTION_FORBIDDEN => Denied("HTTP_FORBIDDEN")
         /\ ReqConf.action = CSRFP_ACTION_REDIRECT =>
              /\ Redirected
              /\ HeaderOut(LOCATION) = ReqConf.errorRedirectionUri
         /\ ReqConf.action = CSRFP_ACTION_MESSAGE =>
              /\ MessagePage
              /\ ReqConf.errorCustomMessage # NULL =>
                   Contains(r.written, Deref(ReqConf.errorCustomMessage))
         /\ ReqConf.action = CSRFP_ACTION_INTERNAL_SERVER_ERROR =>
              Denied("HTTP_INTERNAL_SERVER_ERROR")
    /\ \A sc \in Scopes : confs[sc] # NULL =>
         \A arg \in {a \in ActionArgs : Unrecognized(a)} :
            failedValidationAction(action_cmd(Deref(confs[sc]), arg), <<>>).ret
                = "HTTP_FORBIDDEN"

\* C5: every allowed request (validation passed or not applicable, module
\* enabled) has a csrfp_token cookie on its response, different from the
\* one the previous response issued.
C5_TokenRotates ==
    (r.pc = "filtered" /\ Enabled /\ r.valid \in {"pass", "na"})
    => (IssuedToken(r) # NULL /\ IssuedToken(r) # prevTok)

\* C7, as claimed: X-Protected-By is on the response of every request
\* processed with the module enabled, whatever the validation gave.
C7_MarkerOnEvery ==
    (Returned /\ Enabled) => HeaderOut(X_PROTECTED_BY) # NULL

\* C7, amended: with the module enabled, X-Protected-By is added exactly
\* when validation passed or was not applicable (any method); it is not
\* added when POST validation failed, whatever the action.
C7_MarkerIffAllowed ==
    (Returned /\ Enabled)
    => (HeaderOut(X_PROTECTED_BY) = Ptr(CSRFP_VERSION) <=> r.valid \in {"pass", "na"})

\* a POST whose token matched has the marker, under an enabled module
C7_Witness ==
    /\ Returned /\ Enabled
    /\ r.req.method = "POST" /\ r.valid = "pass"
    /\ HeaderOut(X_PROTECTED_BY) = Ptr(CSRFP_VERSION)

\* C9: with the enable flag off the hook returns OK for every request and
\* changes nothing: no filter, no regenToken flag, no cookie, no header, no
\* text written.
C9_BypassChangesNothing ==
    (r.pc # "idle" /\ ReqConf.flag = 0)
    => /\ r.pc = "parsed"
       /\ r.ret = "OK"
       /\ r.output_filters = {}
       /\ r.subprocess_env = <<>>
       /\ r.headers_out = <<>>
       /\ r.written = <<>>

\* a POST with a token that does not match its cookie, served with the flag off
C9_Witness ==
    /\ r.pc = "parsed" /\ ReqConf.flag = 0
    /\ r.req.method = "POST"
    /\ r.req.cookie = Ptr(CSRFP_TOKEN \o <<"=", "A">>)
    /\ r.req.body = Ptr(CSRFP_TOKEN \o <<"=", "B">>)
    /\ r.ret = "OK"

\* C10: the output filter is attached only to a request whose validation
\* passed or was not applicable; for a request whose validation failed with
\* an action other than strip no filter is registered or run.
C10_FilterOnlyAfterPass ==
    (Returned /\ Enabled) =>
        /\ "csrfp_out_filter" \in r.output_filters =>
              \/ r.valid \in {"pass", "na"}
              \/ r.valid = "fail" /\ ReqConf.action = CSRFP_ACTION_STRIP
        /\ (r.valid = "fail" /\ ReqConf.action # CSRFP_ACTION_STRIP) =>
              r.pc # "filtered"

\* ------------------------------------------------------------------------
\* Claims on the configuration
\* ------------------------------------------------------------------------

\* C11: after csrfp_srv_config_create and any sequence of tokenLength
\* directives, with any arguments, the tokenLength of every config is > 0.
C11_TokenLengthPositive ==
    \A sc \in Scopes :
        confs[sc] # NULL => Deref(confs[sc]).tokenLength > 0

\* a directive of scope sc has just been processed by its handler
DirectiveStep(sc) == ndir' = ndir + 1 /\ cmd_server' = Ptr(sc)

\* C12: configuration scopes are isolated: a directive processed for scope S
\* changes only the config created for S; the config a request to another
\* scope T reads through ap_get_module_config is left unchanged.
C12_ScopesIsolated ==
    [][\A S \in Scopes :
          DirectiveStep(S) => \A T \in Scopes \ {S} : confs'[T] = confs[T]]_vars

=============================================================================
